---- MODULE Spec2Model ----
(***************************************************************************)
(* A model of the batched employment pipeline of data-preprocessing:       *)
(*   main.py                       main                                    *)
(*   ingestion/data_loader.py      DataLoader.load_all_data                *)
(*   processing/employment_processor.py                                    *)
(*        EmploymentProcessor._calculate_turnover_rates                    *)
(*        EmploymentProcessor._analyze_employment_stability                *)
(*   database/duckdb_manager.py    DuckDBManager.save_*_data               *)
(*                                                                         *)
(* Values.  A nullable polars value is a tuple: <<>> is null, <<v>> is the *)
(* value v.  A raw CSV string is a sequence of one-character strings.  A   *)
(* Float64 is an exact fraction <<n, d>> in lowest terms with d > 0        *)
(* (rounding is not modelled).  A Datetime is a record of its civil fields.*)
(* A DataFrame whose rows are unique by a key is the set of its rows; the  *)
(* status table, where order and repetition matter, is a sequence.         *)
(***************************************************************************)
EXTENDS Integers, Sequences, FiniteSets

VARIABLES
    pc,                    \* position in main: load, load_rest, business, financial,
                           \* employment, turnover, stability, save, done, failed
    missing,               \* the input files that do not exist
    store,                 \* economic.duckdb: table name -> contents
    store_at_start,        \* the store as this run of main found it
    run,                   \* the number of this run of main
    log_files,             \* the concatenated raw rows of ParticipantStatusLogs*.csv
    jobs,                  \* raw_data.jobs: rows [jobId, employerId]
    jobs_lookup,           \* the dict jobId -> employerId of _calculate_turnover_rates
    status_logs,           \* raw_data.participant_status_logs (normalized)
    batch_size,            \* batch_size of both batch loops
    batch_start,           \* loop variable of the running batch loop
    batch_log,             \* the "records {batch_start} to {batch_end}" log lines
    live,                  \* the loop's local names: the batch each still refers to
    all_turnover_data,     \* list of per-batch tenure tables
    turnover_rates,        \* return value of _calculate_turnover_rates
    all_stability_data,    \* list of per-batch stability tables
    employment_stability   \* return value of _analyze_employment_stability

vars == <<pc, missing, store, store_at_start, run, log_files, jobs, jobs_lookup,
          status_logs, batch_size, batch_start, batch_log, live,
          all_turnover_data, turnover_rates, all_stability_data,
          employment_stability>>

----------------------------------------------------------------------------
(* Nullable values *)

Null == <<>>

Some(v) == <<v>>

IsNull(x) == x = <<>>

Val(x) == x[1]

Min(a, b) == IF a <= b THEN a ELSE b

----------------------------------------------------------------------------
(* Exact fractions standing for Float64 *)

RECURSIVE GCD(_, _)
GCD(a, b) == IF b = 0 THEN a ELSE GCD(b, a % b)

Abs(n) == IF n < 0 THEN -n ELSE n

\* n / d in lowest terms, d > 0
Frac(n, d) ==
    LET g == GCD(Abs(n), d)
    IN  <<n \div g, d \div g>>

FracAdd(p, q) == Frac(p[1] * q[2] + q[1] * p[2], p[2] * q[2])

FracLeq(p, q) == p[1] * q[2] <= q[1] * p[2]

RECURSIVE SeqSum(_)
SeqSum(s) == IF s = <<>> THEN 0 ELSE s[1] + SeqSum(Tail(s))

RECURSIVE FracSum(_)
FracSum(s) == IF s = <<>> THEN <<0, 1>> ELSE FracAdd(s[1], FracSum(Tail(s)))

\* the variant Expr.first over integers
FirstOfInts(s) == IF s = <<>> \/ IsNull(s[1]) THEN Null ELSE Some(Frac(Val(s[1]), 1))

\* polars Expr.mean over integers: nulls are skipped, null when nothing is left
MeanInts(s) ==
    LET present == SelectSeq(s, LAMBDA x : ~IsNull(x))
        values == [i \in 1..Len(present) |-> Val(present[i])]
    IN  IF present = <<>> THEN Null
        ELSE Some(Frac(SeqSum(values), Len(values)))

\* the variant Expr.sum over floats, null when nothing is left
SumFracs(s) ==
    LET present == SelectSeq(s, LAMBDA x : ~IsNull(x))
    IN  IF present = <<>> THEN Null
        ELSE Some(FracSum([i \in 1..Len(present) |-> Val(present[i])]))

\* polars Expr.mean over floats: nulls are skipped, null when nothing is left
MeanFracs(s) ==
    LET present == SelectSeq(s, LAMBDA x : ~IsNull(x))
        values == [i \in 1..Len(present) |-> Val(present[i])]
        total == FracSum(values)
    IN  IF present = <<>> THEN Null
        ELSE Some(Frac(total[1], total[2] * Len(values)))

----------------------------------------------------------------------------
(* Text to typed values: the casts of load_participant_status_logs *)

Digits == {"0", "1", "2", "3", "4", "5", "6", "7", "8", "9"}

DigitVal(c) ==
    CASE c = "0" -> 0 [] c = "1" -> 1 [] c = "2" -> 2 [] c = "3" -> 3
      [] c = "4" -> 4 [] c = "5" -> 5 [] c = "6" -> 6 [] c = "7" -> 7
      [] c = "8" -> 8 [] c = "9" -> 9

AllDigits(s) == Len(s) > 0 /\ \A i \in 1..Len(s) : s[i] \in Digits

RECURSIVE NatValue(_)
NatValue(s) ==
    IF s = <<>> THEN 0
    ELSE 10 * NatValue(SubSeq(s, 1, Len(s) - 1)) + DigitVal(s[Len(s)])

RECURSIVE Pow10(_)
Pow10(k) == IF k = 0 THEN 1 ELSE 10 * Pow10(k - 1)

Unsigned(s) == IF s # <<>> /\ s[1] = "-" THEN Tail(s) ELSE s

Sign(s) == IF s # <<>> /\ s[1] = "-" THEN -1 ELSE 1

\* the text of an integer: an optional minus sign, then digits
IsIntText(s) == AllDigits(Unsigned(s))

DotAt(s) == {i \in 1..Len(s) : s[i] = "."}

\* the text of a decimal: an optional minus sign, digits, optionally . and digits
IsDecimalText(s) ==
    LET u == Unsigned(s)
    IN  \/ AllDigits(u)
        \/ /\ Cardinality(DotAt(u)) = 1
           /\ LET k == CHOOSE i \in DotAt(u) : TRUE
              IN  AllDigits(SubSeq(u, 1, k - 1)) /\ AllDigits(SubSeq(u, k + 1, Len(u)))

DecimalValue(s) ==
    LET u == Unsigned(s)
    IN  IF DotAt(u) = {} THEN Frac(Sign(s) * NatValue(u), 1)
        ELSE LET k == CHOOSE i \in DotAt(u) : TRUE
                 whole == SubSeq(u, 1, k - 1)
                 part == SubSeq(u, k + 1, Len(u))
             IN  Frac(Sign(s) * (NatValue(whole) * Pow10(Len(part)) + NatValue(part)),
                      Pow10(Len(part)))

\* the variant with strict=True
StrictCastsOn == TRUE

\* strict=False of every cast and of str.to_datetime
StrictCasts == FALSE

\* cast(pl.Int64, strict=False): a parse failure gives null
CastInt64(x) ==
    IF IsNull(x) THEN Null
    ELSE IF IsIntText(Val(x)) THEN Some(Sign(Val(x)) * NatValue(Unsigned(Val(x))))
    ELSE Null

\* cast(pl.Float64, strict=False): a parse failure gives null
CastFloat64(x) ==
    IF IsNull(x) THEN Null
    ELSE IF IsDecimalText(Val(x)) THEN Some(DecimalValue(Val(x)))
    ELSE Null

IsLeap(y) == (y % 4 = 0 /\ y % 100 # 0) \/ y % 400 = 0

DaysInMonth(y, m) ==
    IF m = 2 THEN (IF IsLeap(y) THEN 29 ELSE 28)
    ELSE IF m \in {4, 6, 9, 11} THEN 30 ELSE 31

\* the fixed-width layout of format="%Y-%m-%dT%H:%M:%SZ"
DatetimeLayout(s) ==
    /\ Len(s) = 20
    /\ s[5] = "-" /\ s[8] = "-" /\ s[11] = "T"
    /\ s[14] = ":" /\ s[17] = ":" /\ s[20] = "Z"
    /\ \A i \in {1, 2, 3, 4, 6, 7, 9, 10, 12, 13, 15, 16, 18, 19} : s[i] \in Digits

DatetimeFields(s) ==
    [year |-> NatValue(SubSeq(s, 1, 4)), month |-> NatValue(SubSeq(s, 6, 7)),
     day |-> NatValue(SubSeq(s, 9, 10)), hour |-> NatValue(SubSeq(s, 12, 13)),
     minute |-> NatValue(SubSeq(s, 15, 16)), second |-> NatValue(SubSeq(s, 18, 19))]

IsDatetimeText(s) ==
    /\ DatetimeLayout(s)
    /\ LET t == DatetimeFields(s)
       IN  /\ t.month \in 1..12
           /\ t.day \in 1..DaysInMonth(t.year, t.month)
           /\ t.hour \in 0..23 /\ t.minute \in 0..59 /\ t.second \in 0..59

\* str.to_datetime(format=..., strict=False): a parse failure gives null
ToDatetime(x) ==
    IF IsNull(x) THEN Null
    ELSE IF IsDatetimeText(Val(x)) THEN Some(DatetimeFields(Val(x)))
    ELSE Null

\* the casts that strict=True would raise on: a non-null text that does not parse
IntCastFails(x) == ~IsNull(x) /\ ~IsIntText(Val(x))

FloatCastFails(x) == ~IsNull(x) /\ ~IsDecimalText(Val(x))

DatetimeParseFails(x) == ~IsNull(x) /\ ~IsDatetimeText(Val(x))

\* the list ["", "null", "None", None] of the is_in tests; None is the null
SentinelStrings == {<<>>, <<"n", "u", "l", "l">>, <<"N", "o", "n", "e">>}

\* Expr.is_in: null for a null value, else membership
IsIn(x, strings) == IF IsNull(x) THEN Null ELSE Some(Val(x) \in strings)

\* pl.when(c).then(a).otherwise(b): a null condition selects otherwise
WhenThenOtherwise(c, a, b) == IF ~IsNull(c) /\ Val(c) THEN a ELSE b

\* the variant with then and otherwise exchanged
NormalizeIdSwapped(x) == WhenThenOtherwise(IsIn(x, SentinelStrings), CastInt64(x), Null)

\* the apartmentId / jobId expression
NormalizeId(x) == WhenThenOtherwise(IsIn(x, SentinelStrings), Null, CastInt64(x))

\* one row through the with_columns of load_participant_status_logs
NormalizeRow(r) ==
    [timestamp |-> ToDatetime(r.timestamp),
     participantId |-> CastInt64(r.participantId),
     availableBalance |-> CastFloat64(r.availableBalance),
     apartmentId |-> NormalizeId(r.apartmentId),
     jobId |-> NormalizeId(r.jobId)]

NormalizeTable(raw) == [i \in 1..Len(raw) |-> NormalizeRow(raw[i])]

\* whether the coercions raise: only under strict casts, on a failing field
CoercionRaises(raw) ==
    /\ StrictCasts
    /\ \E i \in 1..Len(raw) :
          \/ DatetimeParseFails(raw[i].timestamp)
          \/ IntCastFails(raw[i].participantId)
          \/ FloatCastFails(raw[i].availableBalance)
          \/ IntCastFails(raw[i].apartmentId)
          \/ IntCastFails(raw[i].jobId)

\* the dtypes of the columns before the with_columns (schema_overrides) and
\* after it
StringSchema ==
    [timestamp |-> "String", participantId |-> "String", availableBalance |-> "String",
     apartmentId |-> "String", jobId |-> "String"]

NormalizedSchema ==
    [timestamp |-> "Datetime", participantId |-> "Int64", availableBalance |-> "Float64",
     apartmentId |-> "Int64", jobId |-> "Int64"]

\* an expression of the .str namespace raises on a column that is not String
StrNamespaceRaises(dtype) == dtype # "String"

\* the with_columns of load_participant_status_logs on a table of the given
\* schema: whether it raises and, where it does not, the table it makes
WithColumns(schema, table) ==
    IF StrNamespaceRaises(schema.timestamp)
    THEN [raised |-> TRUE, schema |-> schema, rows |-> table]
    ELSE [raised |-> CoercionRaises(table), schema |-> NormalizedSchema,
          rows |-> NormalizeTable(table)]

----------------------------------------------------------------------------
(* Datetime arithmetic and formatting *)

SecondsPerDay == 86400

\* days from 1970-01-01 to the civil date y-m-d (proleptic Gregorian)
DaysFromCivil(y, m, d) ==
    LET yy == IF m <= 2 THEN y - 1 ELSE y
        era == yy \div 400
        yoe == yy - era * 400
        mp == IF m > 2 THEN m - 3 ELSE m + 9
        doy == (153 * mp + 2) \div 5 + d - 1
        doe == yoe * 365 + yoe \div 4 - yoe \div 100 + doy
    IN  era * 146097 + doe - 719468

\* the instant of a Datetime, in seconds since the epoch
EpochSeconds(t) ==
    DaysFromCivil(t.year, t.month, t.day) * SecondsPerDay
        + t.hour * 3600 + t.minute * 60 + t.second

\* (end - start).dt.total_days(): whole days of the duration
TotalDays(start, end) == (EpochSeconds(end) - EpochSeconds(start)) \div SecondsPerDay

DigitChar(n) ==
    CASE n = 0 -> "0" [] n = 1 -> "1" [] n = 2 -> "2" [] n = 3 -> "3"
      [] n = 4 -> "4" [] n = 5 -> "5" [] n = 6 -> "6" [] n = 7 -> "7"
      [] n = 8 -> "8" [] n = 9 -> "9"

\* dt.strftime("%Y-%m") of a nullable Datetime: "2022-03"
StrftimeYearMonth(x) ==
    IF IsNull(x) THEN Null
    ELSE LET y == Val(x).year
             m == Val(x).month
         IN  Some(<<DigitChar((y \div 1000) % 10), DigitChar((y \div 100) % 10),
                    DigitChar((y \div 10) % 10), DigitChar(y % 10), "-",
                    DigitChar(m \div 10), DigitChar(m % 10)>>)

\* Expr.min / Expr.max of a set of Datetimes: nulls are skipped
MinDatetime(ts) ==
    IF ts = {} THEN Null
    ELSE Some(CHOOSE t \in ts : \A u \in ts : EpochSeconds(t) <= EpochSeconds(u))

MaxDatetime(ts) ==
    IF ts = {} THEN Null
    ELSE Some(CHOOSE t \in ts : \A u \in ts : EpochSeconds(u) <= EpochSeconds(t))

RECURSIVE SetToSeq(_)
SetToSeq(S) ==
    IF S = {} THEN <<>>
    ELSE LET x == CHOOSE y \in S : TRUE
         IN  <<x>> \o SetToSeq(S \ {x})

----------------------------------------------------------------------------
(* The batch loops: range(0, total_records, batch_size) *)

TotalRecords == Len(status_logs)

\* the variant without the min
BatchEndUnclamped(start, size, total) == start + size

\* batch_end = min(batch_start + batch_size, total_records)
BatchEnd(start, size, total) == Min(start + size, total)

\* DataFrame.slice(offset, length): the rows from offset, at most length of
\* them, ending with the table
Slice(table, offset, length) ==
    SubSeq(table, offset + 1, Min(offset + length, Len(table)))

BatchLogs(table, start, size) ==
    Slice(table, start, BatchEnd(start, size, Len(table)) - start)

\* the variant that leaves the loop after any iteration
LoopExhaustedEarly(start, total) == start >= total \/ start > 0

\* range(0, total, size) has no value left at start
LoopExhausted(start, total) == start >= total

\* the number of values of range(0, total, size)
BatchCount(total, size) == (total + size - 1) \div size

----------------------------------------------------------------------------
(* _calculate_turnover_rates *)

\* the dict jobId -> employerId made of the jobs table; a repeated jobId keeps
\* its last row
JobsLookup(jobsTable) ==
    [k \in {jobsTable[i].jobId : i \in 1..Len(jobsTable)} |->
        LET hits == {i \in 1..Len(jobsTable) : jobsTable[i].jobId = k}
        IN  jobsTable[CHOOSE i \in hits : \A j \in hits : j <= i].employerId]

\* the variant of dict.get whose default is the key
JobsLookupGetOrKey(lookup, x) == IF x \in DOMAIN lookup THEN Some(lookup[x]) ELSE Some(x)

\* jobs_lookup.get(x): None for a key the dict does not have
JobsLookupGet(lookup, x) == IF x \in DOMAIN lookup THEN Some(lookup[x]) ELSE Null

\* filter(jobId is not null).select(participantId, timestamp, jobId).unique()
EmployedRecords(batch) ==
    {[participantId |-> batch[i].participantId, timestamp |-> batch[i].timestamp,
      jobId |-> batch[i].jobId] : i \in {j \in 1..Len(batch) : ~IsNull(batch[j].jobId)}}

\* with_columns(employerId = lookup).filter(employerId is not null)
EmploymentPeriods(batch, lookup) ==
    {[participantId |-> r.participantId, timestamp |-> r.timestamp, jobId |-> r.jobId,
      employerId |-> JobsLookupGet(lookup, Val(r.jobId))] :
        r \in {e \in EmployedRecords(batch) :
                  ~IsNull(JobsLookupGet(lookup, Val(e.jobId)))}}

\* the agg and with_columns of one (participantId, jobId, employerId) group
TenureRecord(group) ==
    LET any == CHOOSE r \in group : TRUE
        stamps == {Val(r.timestamp) : r \in {q \in group : ~IsNull(q.timestamp)}}
        start == MinDatetime(stamps)
        end == MaxDatetime(stamps)
    IN  [participantId |-> any.participantId, jobId |-> any.jobId,
         employerId |-> any.employerId, start_date |-> start, end_date |-> end,
         tenure_days |-> IF IsNull(start) \/ IsNull(end) THEN Null
                         ELSE Some(TotalDays(Val(start), Val(end))),
         start_month |-> StrftimeYearMonth(start)]

\* the variant without the filter
TenureUnfiltered(r) == TRUE

\* filter(tenure_days >= 0): a null comparison drops the row
TenureFilter(r) == ~IsNull(r.tenure_days) /\ Val(r.tenure_days) >= 0

\* batch_tenure of one batch; an empty set where the loop takes `continue`
BatchTenure(batch, lookup) ==
    LET periods == EmploymentPeriods(batch, lookup)
        keys == {<<r.participantId, r.jobId, r.employerId>> : r \in periods}
        records == {TenureRecord({r \in periods :
                        <<r.participantId, r.jobId, r.employerId>> = k}) : k \in keys}
    IN  {r \in records : TenureFilter(r)}

\* the variant that starts the pool again with the batch
RestartIfRows(pool, table) == IF table = {} THEN pool ELSE <<table>>

\* if len(batch) > 0: pool.append(batch)
AppendIfRows(pool, table) == IF table = {} THEN pool ELSE Append(pool, table)

\* all_turnover_data after the first n iterations of the batch loop
RECURSIVE TenurePool(_, _, _, _)
TenurePool(table, lookup, size, n) ==
    IF n = 0 THEN <<>>
    ELSE AppendIfRows(TenurePool(table, lookup, size, n - 1),
                      BatchTenure(BatchLogs(table, (n - 1) * size, size), lookup))

\* pl.concat(pool): the rows of all tables, a row repeated once per table it is in
Concat(pool) == UNION {{<<i, r>> : r \in pool[i]} : i \in 1..Len(pool)}

TurnoverColumns == <<"month", "employerId", "new_hires", "avg_tenure_days", "turnover_rate">>

ShortTenureDays == 30

\* the variant with the comparison turned round
IsShortTenureFlipped(r) == ~IsNull(r.tenure_days) /\ Val(r.tenure_days) >= ShortTenureDays

\* (tenure_days <= 30), summed: a null comparison is not counted
IsShortTenure(r) == ~IsNull(r.tenure_days) /\ Val(r.tenure_days) <= ShortTenureDays

\* the agg, with_columns and select of one (start_month, employerId) group of
\* the combined pool
TurnoverRow(group) ==
    LET any == (CHOOSE e \in group : TRUE)[2]
        members == SetToSeq(group)
        new_hires == Cardinality(group)
        short_tenure_count == Cardinality({e \in group : IsShortTenure(e[2])})
    IN  [month |-> any.start_month, employerId |-> any.employerId,
         new_hires |-> new_hires,
         avg_tenure_days |-> MeanInts([i \in 1..Len(members) |-> members[i][2].tenure_days]),
         turnover_rate |-> Frac(short_tenure_count, new_hires)]

\* combined_tenure.group_by(["start_month", "employerId"]) ...
TurnoverRates(pool) ==
    LET combined == Concat(pool)
        keys == {<<e[2].start_month, e[2].employerId>> : e \in combined}
    IN  {TurnoverRow({e \in combined : <<e[2].start_month, e[2].employerId>> = k}) :
            k \in keys}

\* pl.concat raises on an empty list; otherwise the final metrics
CombineTenure(pool) ==
    IF pool = <<>> THEN [raised |-> TRUE, columns |-> <<>>, rows |-> {}]
    ELSE [raised |-> FALSE, columns |-> TurnoverColumns, rows |-> TurnoverRates(pool)]

\* the variant without the test for an empty pool
TurnoverReturnUnguarded(pool) == CombineTenure(pool)

\* what _calculate_turnover_rates returns for the pool of its batch loop
TurnoverReturn(pool) ==
    IF pool = <<>>
    THEN [raised |-> FALSE, columns |-> TurnoverColumns, rows |-> {}]
    ELSE CombineTenure(pool)

----------------------------------------------------------------------------
(* _analyze_employment_stability *)

\* the agg of one (participantId, month) group of a batch; rows are the
\* positions of the group in the batch
StabilityRecord(batch, rows) ==
    LET any == batch[CHOOSE i \in rows : TRUE]
        members == SetToSeq(rows)
        employed == {i \in rows : ~IsNull(batch[i].jobId)}
    IN  [participantId |-> any.participantId,
         month |-> StrftimeYearMonth(any.timestamp),
         employment_rate |-> Some(Frac(Cardinality(employed), Cardinality(rows))),
         job_changes |-> Cardinality({batch[i].jobId : i \in rows}),
         avg_balance |->
             MeanFracs([i \in 1..Len(members) |-> batch[members[i]].availableBalance])]

\* filter(employment_rate is not null)
StabilityFilter(r) == ~IsNull(r.employment_rate)

StabilityKey(row) == <<row.participantId, StrftimeYearMonth(row.timestamp)>>

\* batch_stability of one batch
BatchStability(batch) ==
    LET keys == {StabilityKey(batch[i]) : i \in 1..Len(batch)}
        records == {StabilityRecord(batch,
                        {i \in 1..Len(batch) : StabilityKey(batch[i]) = k}) : k \in keys}
    IN  {r \in records : StabilityFilter(r)}

\* all_stability_data after the first n iterations of the batch loop
RECURSIVE StabilityPool(_, _, _)
StabilityPool(table, size, n) ==
    IF n = 0 THEN <<>>
    ELSE AppendIfRows(StabilityPool(table, size, n - 1),
                      BatchStability(BatchLogs(table, (n - 1) * size, size)))

StabilityColumns ==
    <<"participantId", "month", "employment_rate", "job_changes", "avg_balance">>

\* the variant that makes a percentage of the rate
StabilityScorePercent(rate) ==
    IF IsNull(rate) THEN Null ELSE Some(Frac(100 * Val(rate)[1], Val(rate)[2]))

\* pl.col("employment_rate").alias("stability_score")
StabilityScore(rate) == rate

\* the re-aggregation of one (participantId, month) group of the combined pool,
\* with the stability_score column
StabilityRow(group) ==
    LET any == (CHOOSE e \in group : TRUE)[2]
        members == SetToSeq(group)
        rate == MeanFracs([i \in 1..Len(members) |-> members[i][2].employment_rate])
    IN  [participantId |-> any.participantId, month |-> any.month,
         employment_rate |-> rate,
         job_changes |-> SeqSum([i \in 1..Len(members) |-> members[i][2].job_changes]),
         avg_balance |-> MeanFracs([i \in 1..Len(members) |-> members[i][2].avg_balance]),
         stability_score |-> StabilityScore(rate)]

\* combined_stability.group_by(["participantId", "month"]) ...
EmploymentStability(pool) ==
    LET combined == Concat(pool)
        keys == {<<e[2].participantId, e[2].month>> : e \in combined}
        records == {StabilityRow({e \in combined :
                        <<e[2].participantId, e[2].month>> = k}) : k \in keys}
    IN  {r \in records : StabilityFilter(r)}

\* what _analyze_employment_stability returns for the pool of its batch loop
StabilityReturn(pool) ==
    IF pool = <<>>
    THEN [raised |-> FALSE, columns |-> StabilityColumns, rows |-> {}]
    ELSE [raised |-> FALSE, columns |-> Append(StabilityColumns, "stability_score"),
          rows |-> EmploymentStability(pool)]

----------------------------------------------------------------------------
(* The steps of main *)

Table(ret) == [columns |-> ret.columns, rows |-> ret.rows]

NotComputed == [columns |-> <<>>, rows |-> {}]

\* the input files of load_all_data
StatusLogFiles == "ParticipantStatusLogs*.csv"

JournalFiles ==
    {"FinancialJournal.csv", "CheckinJournal.csv", "TravelJournal.csv", "SocialNetwork.csv"}

AttributeFiles ==
    {"Participants.csv", "Jobs.csv", "Employers.csv", "Apartments.csv",
     "Buildings.csv", "Restaurants.csv", "Pubs.csv", "Schools.csv"}

\* the attribute tables whose columns each processor reads; a missing
\* attribute file is loaded as a DataFrame without columns, and a select or a
\* join on one of its columns raises
BusinessAttributes == {"Restaurants.csv", "Pubs.csv"}

FinancialAttributes == {"Participants.csv", "Jobs.csv", "Apartments.csv"}

EmploymentAttributes == {"Jobs.csv", "Employers.csv"}

\* the tables each save writes
BusinessTables ==
    {"business.trends", "business.venue_performance", "business.customer_patterns",
     "business.revenue_indicators"}

FinancialTables ==
    {"financial.participant_trajectories", "financial.groups",
     "financial.wage_analysis", "financial.cost_living_trends"}

EmploymentTables ==
    {"employment.job_flows", "employment.employer_health",
     "employment.turnover_rates", "employment.stability"}

SummaryTables ==
    {"summaries.business_summary", "summaries.financial_summary",
     "summaries.employment_summary", "summaries.monthly_trends"}

StoreTables == BusinessTables \cup FinancialTables \cup EmploymentTables \cup SummaryTables

\* a stored table is the sequence of the tables inserted into it; <<>> where
\* the store has no such table
EmptyStore == [t \in StoreTables |-> <<>>]

\* the variant that keeps the rows the table has: INSERT INTO
InsertIntoTable(existing, table) == Append(existing, table)

\* CREATE OR REPLACE TABLE name AS SELECT * FROM table
CreateOrReplaceTable(existing, table) == <<table>>

\* a table computed outside the batched analyses: a function of the inputs
\* alone, kept as its name
Derived(name) == [columns |-> <<name>>, rows |-> {}]

\* one save_*_data call, or generate_summaries: every table of `names`
\* written, from `tables` where it has an entry
Save(st, names, tables) ==
    [t \in DOMAIN st |->
        IF t \notin names THEN st[t]
        ELSE CreateOrReplaceTable(st[t],
                 IF t \in DOMAIN tables THEN tables[t] ELSE Derived(t))]

\* sys.exit(1) in the except clause of main; a normal return is status 0
ExitStatus == IF pc = "failed" THEN Some(1) ELSE IF pc = "done" THEN Some(0) ELSE Null

\* data_loader.load_participant_status_logs: glob, concatenate, then coerce
LoadParticipantStatusLogs ==
    /\ pc = "load"
    /\ LET raises == StatusLogFiles \in missing \/ CoercionRaises(log_files)
       IN  /\ pc' = IF raises THEN "failed" ELSE "load_rest"
           /\ status_logs' = IF raises THEN status_logs ELSE NormalizeTable(log_files)
    /\ UNCHANGED <<live, missing, store, store_at_start, run, log_files, jobs, jobs_lookup,
                   batch_size, batch_start, batch_log,
                   all_turnover_data, turnover_rates, all_stability_data,
                   employment_stability>>

\* the rest of load_all_data: pl.read_csv raises on a journal that does not
\* exist; load_attributes_data only warns of an attribute file that does not
LoadJournalsAndAttributes ==
    /\ pc = "load_rest"
    /\ pc' = IF missing \cap JournalFiles # {} THEN "failed" ELSE "business"
    /\ UNCHANGED <<live, missing, store, store_at_start, run, log_files, jobs, jobs_lookup,
                   status_logs, batch_size, batch_start, batch_log,
                   all_turnover_data, turnover_rates, all_stability_data,
                   employment_stability>>

\* business_processor.process() and db_manager.save_business_data
ProcessBusiness ==
    /\ pc = "business"
    /\ LET raises == missing \cap BusinessAttributes # {}
       IN  /\ pc' = IF raises THEN "failed" ELSE "financial"
           /\ store' = IF raises THEN store ELSE Save(store, BusinessTables, <<>>)
    /\ UNCHANGED <<live, missing, store_at_start, run, log_files, jobs, jobs_lookup,
                   status_logs, batch_size, batch_start, batch_log,
                   all_turnover_data, turnover_rates, all_stability_data,
                   employment_stability>>

\* financial_processor.process() and db_manager.save_financial_data
ProcessFinancial ==
    /\ pc = "financial"
    /\ LET raises == missing \cap FinancialAttributes # {}
       IN  /\ pc' = IF raises THEN "failed" ELSE "employment"
           /\ store' = IF raises THEN store ELSE Save(store, FinancialTables, <<>>)
    /\ UNCHANGED <<live, missing, store_at_start, run, log_files, jobs, jobs_lookup,
                   status_logs, batch_size, batch_start, batch_log,
                   all_turnover_data, turnover_rates, all_stability_data,
                   employment_stability>>

\* employment_processor.process() up to the batch loop of
\* _calculate_turnover_rates: job flows, employer health, the jobs lookup and
\* the empty pool
EmploymentStart ==
    /\ pc = "employment"
    /\ LET raises == missing \cap EmploymentAttributes # {}
       IN  /\ pc' = IF raises THEN "failed" ELSE "turnover"
           /\ jobs_lookup' = IF raises THEN jobs_lookup ELSE JobsLookup(jobs)
    /\ all_turnover_data' = <<>>
    /\ UNCHANGED <<live, missing, store, store_at_start, run, log_files, jobs,
                   status_logs, batch_size, batch_start, batch_log,
                   turnover_rates, all_stability_data, employment_stability>>

\* the names a batch loop binds, and the batch (counted from 1) whose data each
\* refers to; 0 where the name is not bound
NoLocals ==
    [batch_logs |-> 0, employed_records |-> 0, employment_periods |-> 0,
     batch_tenure |-> 0, batch_stability |-> 0]

\* the names after iteration b of the turnover loop: a name keeps its object
\* until the loop assigns it again, and `continue` leaves the later names as
\* they were
TurnoverLocals(locals, b, batch, lookup) ==
    IF EmployedRecords(batch) = {}
    THEN [locals EXCEPT !.batch_logs = b, !.employed_records = b]
    ELSE IF EmploymentPeriods(batch, lookup) = {}
    THEN [locals EXCEPT !.batch_logs = b, !.employed_records = b,
                        !.employment_periods = b]
    ELSE [locals EXCEPT !.batch_logs = b, !.employed_records = b,
                        !.employment_periods = b, !.batch_tenure = b]

\* the names after iteration b of the stability loop
StabilityLocals(locals, b) == [locals EXCEPT !.batch_logs = b, !.batch_stability = b]

\* one iteration of the batch loop of _calculate_turnover_rates
TurnoverBatch ==
    /\ pc = "turnover"
    /\ batch_start < TotalRecords
    /\ batch_log' = Append(batch_log,
            [analysis |-> "turnover", batch_start |-> batch_start,
             batch_end |-> BatchEnd(batch_start, batch_size, TotalRecords)])
    /\ all_turnover_data' = AppendIfRows(all_turnover_data,
            BatchTenure(BatchLogs(status_logs, batch_start, batch_size), jobs_lookup))
    /\ live' = TurnoverLocals(live, batch_start \div batch_size + 1,
                              BatchLogs(status_logs, batch_start, batch_size), jobs_lookup)
    /\ batch_start' = batch_start + batch_size
    /\ UNCHANGED <<pc, missing, store, store_at_start, run, log_files, jobs,
                   jobs_lookup, status_logs, batch_size, turnover_rates,
                   all_stability_data, employment_stability>>

\* the end of the loop of _calculate_turnover_rates: combine and return
TurnoverCombine ==
    /\ pc = "turnover"
    /\ LoopExhausted(batch_start, TotalRecords)
    /\ turnover_rates' = Table(TurnoverReturn(all_turnover_data))
    /\ pc' = IF TurnoverReturn(all_turnover_data).raised THEN "failed" ELSE "stability"
    /\ batch_start' = 0
    /\ live' = NoLocals
    /\ UNCHANGED <<missing, store, store_at_start, run, log_files, jobs, jobs_lookup,
                   status_logs, batch_size, batch_log,
                   all_turnover_data, all_stability_data, employment_stability>>

\* one iteration of the batch loop of _analyze_employment_stability
StabilityBatch ==
    /\ pc = "stability"
    /\ batch_start < TotalRecords
    /\ batch_log' = Append(batch_log,
            [analysis |-> "stability", batch_start |-> batch_start,
             batch_end |-> BatchEnd(batch_start, batch_size, TotalRecords)])
    /\ all_stability_data' = AppendIfRows(all_stability_data,
            BatchStability(BatchLogs(status_logs, batch_start, batch_size)))
    /\ live' = StabilityLocals(live, batch_start \div batch_size + 1)
    /\ batch_start' = batch_start + batch_size
    /\ UNCHANGED <<pc, missing, store, store_at_start, run, log_files, jobs,
                   jobs_lookup, status_logs, batch_size, all_turnover_data,
                   turnover_rates, employment_stability>>

\* the end of the loop of _analyze_employment_stability: re-aggregate and return
StabilityCombine ==
    /\ pc = "stability"
    /\ LoopExhausted(batch_start, TotalRecords)
    /\ employment_stability' = Table(StabilityReturn(all_stability_data))
    /\ pc' = IF StabilityReturn(all_stability_data).raised THEN "failed" ELSE "save"
    /\ batch_start' = 0
    /\ live' = NoLocals
    /\ UNCHANGED <<missing, store, store_at_start, run, log_files, jobs, jobs_lookup,
                   status_logs, batch_size, batch_log,
                   all_turnover_data, turnover_rates, all_stability_data>>

\* what save_employment_data is given of the batched analyses
EmploymentMetrics ==
    [t \in {"employment.turnover_rates", "employment.stability"} |->
        IF t = "employment.turnover_rates" THEN turnover_rates ELSE employment_stability]

\* db_manager.save_employment_data and db_manager.generate_summaries
SaveEmployment ==
    /\ pc = "save"
    /\ store' = Save(Save(store, EmploymentTables, EmploymentMetrics), SummaryTables, <<>>)
    /\ pc' = "done"
    /\ UNCHANGED <<live, missing, store_at_start, run, log_files, jobs, jobs_lookup,
                   status_logs, batch_size, batch_start, batch_log,
                   all_turnover_data, turnover_rates, all_stability_data,
                   employment_stability>>

Next ==
    \/ LoadParticipantStatusLogs
    \/ LoadJournalsAndAttributes
    \/ ProcessBusiness
    \/ ProcessFinancial
    \/ EmploymentStart
    \/ TurnoverBatch
    \/ TurnoverCombine
    \/ StabilityBatch
    \/ StabilityCombine
    \/ SaveEmployment

----------------------------------------------------------------------------
(* Inputs *)

MaxRows == 3

MaxPlanRows == 6

MaxRawRows == 2

MaxBatchSize == 3

MaxPlanBatchSize == 4

MaxRuns == 2

TextA == <<"2", "0", "2", "2", "-", "0", "3", "-", "0", "1", "T",
           "0", "0", ":", "0", "0", ":", "0", "0", "Z">>

TextB == <<"2", "0", "2", "2", "-", "0", "4", "-", "0", "1", "T",
           "1", "2", ":", "0", "0", ":", "0", "0", "Z">>

JobsTables ==
    {<<[jobId |-> 10, employerId |-> 100], [jobId |-> 11, employerId |-> 100]>>,
     <<[jobId |-> 10, employerId |-> 100], [jobId |-> 11, employerId |-> 101]>>,
     <<[jobId |-> 10, employerId |-> 100]>>}

OneJobsTable ==
    {<<[jobId |-> 10, employerId |-> 100], [jobId |-> 11, employerId |-> 101]>>}

TurnoverRawRows ==
    [timestamp : {Null, Some(TextA), Some(TextB)},
     participantId : {Some(<<"1">>)},
     availableBalance : {Null},
     apartmentId : {Null},
     jobId : {Null, Some(<<"1", "0">>), Some(<<"1", "1">>)}]

StabilityRawRows ==
    [timestamp : {Some(TextA), Some(TextB)},
     participantId : {Some(<<"1">>)},
     availableBalance : {Some(<<"0">>), Some(<<"3">>)},
     apartmentId : {Null},
     jobId : {Null, Some(<<"1", "0">>), Some(<<"1", "1">>)}]

PlanRawRows ==
    [timestamp : {Some(TextA)},
     participantId : {Some(<<"1">>)},
     availableBalance : {Some(<<"3">>)},
     apartmentId : {Null},
     jobId : {Some(<<"1", "0">>)}]

Tables(rows, n) == UNION {[1..k -> rows] : k \in 0..n}

\* the state main starts in; log_files and jobs are what the files hold where
\* they exist
InitWith(rawTables, jobsTables, sizes, absent) ==
    /\ pc = "load"
    /\ missing \in absent
    /\ store = EmptyStore
    /\ store_at_start = EmptyStore
    /\ run = 1
    /\ log_files \in rawTables
    /\ jobs \in jobsTables
    /\ jobs_lookup = <<>>
    /\ status_logs = <<>>
    /\ batch_size \in sizes
    /\ batch_start = 0
    /\ batch_log = <<>>
    /\ live = NoLocals
    /\ all_turnover_data = <<>>
    /\ turnover_rates = NotComputed
    /\ all_stability_data = <<>>
    /\ employment_stability = NotComputed

Init == InitWith(Tables(TurnoverRawRows, MaxRows), JobsTables, 1..MaxBatchSize, {{}})

InitStability ==
    InitWith(Tables(StabilityRawRows, MaxRows), OneJobsTable, 1..MaxBatchSize, {{}})

InitPlan ==
    InitWith(Tables(PlanRawRows, MaxPlanRows), OneJobsTable, 1..MaxPlanBatchSize, {{}})

\* the text values a raw field is tried with
TextBadDay == <<"2", "0", "2", "2", "-", "0", "2", "-", "3", "0", "T",
                "0", "0", ":", "0", "0", ":", "0", "0", "Z">>

RawTexts ==
    {<<>>, <<"n", "u", "l", "l">>, <<"N", "o", "n", "e">>, <<"a", "b", "c">>,
     <<"1", ".", "5">>, <<"1", "2">>, <<"-", "2">>, TextB, TextBadDay}

RawFields == {"timestamp", "participantId", "availableBalance", "apartmentId", "jobId"}

BaseRawRow ==
    [timestamp |-> Some(TextA), participantId |-> Some(<<"1">>),
     availableBalance |-> Some(<<"1", ".", "5">>), apartmentId |-> Some(<<"7">>),
     jobId |-> Some(<<"1", "0">>)]

\* the base row, and the base row with one field null or replaced by a text
LoaderRawRows ==
    {BaseRawRow}
        \cup {[BaseRawRow EXCEPT ![f] = v] :
                f \in RawFields, v \in {Null} \cup {Some(t) : t \in RawTexts}}

InitLoad == InitWith(Tables(LoaderRawRows, MaxRawRows), OneJobsTable, {MaxBatchSize}, {{}})

\* rows of one participant without a job or with a job that the jobs table
\* may not have
LookupRawRows ==
    [timestamp : {Some(TextA), Some(TextB)},
     participantId : {Some(<<"1">>)},
     availableBalance : {Null},
     apartmentId : {Null},
     jobId : {Null, Some(<<"1", "0">>), Some(<<"1", "1">>)}]

InitLookup == InitWith(Tables(LookupRawRows, MaxRows), JobsTables, 1..MaxBatchSize, {{}})

\* rows of one participant with or without a timestamp, with a job that the
\* jobs table has, may have, or never has
AbsentRawRows ==
    [timestamp : {Null, Some(TextB)},
     participantId : {Some(<<"1">>)},
     availableBalance : {Null},
     apartmentId : {Null},
     jobId : {Some(<<"1", "0">>), Some(<<"1", "1">>), Some(<<"1", "2">>)}]

InitAbsent == InitWith(Tables(AbsentRawRows, MaxRows), JobsTables, 1..MaxBatchSize, {{}})

\* rows of one participant with or without the job 10, in two months and
\* with two balances
RateRawRows ==
    [timestamp : {Some(TextA), Some(TextB)},
     participantId : {Some(<<"1">>)},
     availableBalance : {Some(<<"0">>), Some(<<"3">>)},
     apartmentId : {Null},
     jobId : {Null, Some(<<"1", "0">>)}]

InitRate == InitWith(Tables(RateRawRows, MaxRows), OneJobsTable, 1..MaxBatchSize, {{}})

\* the rows of the runs with a missing file and of the repeated runs
RunRawRows ==
    [timestamp : {Some(TextA), Some(TextB)},
     participantId : {Some(<<"1">>)},
     availableBalance : {Some(<<"3">>)},
     apartmentId : {Null},
     jobId : {Null, Some(<<"1", "0">>)}]

\* no file missing, or one
MissingFiles ==
    {{}} \cup {{f} : f \in {StatusLogFiles} \cup JournalFiles \cup AttributeFiles}

InitRun ==
    InitWith(Tables(RunRawRows, MaxRawRows), OneJobsTable, 1..MaxBatchSize, MissingFiles)

\* main invoked again on the same input and the same economic.duckdb
RunAgain ==
    /\ pc \in {"done", "failed"}
    /\ run < MaxRuns
    /\ pc' = "load"
    /\ run' = run + 1
    /\ store_at_start' = store
    /\ jobs_lookup' = <<>>
    /\ status_logs' = <<>>
    /\ batch_start' = 0
    /\ batch_log' = <<>>
    /\ live' = NoLocals
    /\ all_turnover_data' = <<>>
    /\ turnover_rates' = NotComputed
    /\ all_stability_data' = <<>>
    /\ employment_stability' = NotComputed
    /\ UNCHANGED <<missing, store, log_files, jobs, batch_size>>

NextRun == Next \/ RunAgain

Spec == Init /\ [][Next]_vars

LoadSpec == InitLoad /\ [][LoadParticipantStatusLogs]_vars

StabilitySpec == InitStability /\ [][Next]_vars

PlanSpec == InitPlan /\ [][Next]_vars

RunSpec == InitRun /\ [][NextRun]_vars

RateSpec == InitRate /\ [][Next]_vars

LookupSpec == InitLookup /\ [][Next]_vars

AbsentSpec == InitAbsent /\ [][Next]_vars

----------------------------------------------------------------------------
(* Properties *)

TurnoverReturned == pc \in {"stability", "save", "done"}

TurnoverLoopEnded == (pc = "turnover" /\ batch_start >= TotalRecords) \/ TurnoverReturned

StabilityReturned == pc \in {"save", "done"}

\* the status table taken as one batch
SinglePassTurnover == Table(TurnoverReturn(AppendIfRows(<<>>, BatchTenure(status_logs, JobsLookup(jobs)))))

SinglePassStability == Table(StabilityReturn(AppendIfRows(<<>>, BatchStability(status_logs))))

RowsOfKey(k) == {i \in 1..Len(status_logs) : StabilityKey(status_logs[i]) = k}

\* the batches (by their number) that hold a row of the stability key k
BatchesOfKey(k) == {(i - 1) \div batch_size : i \in RowsOfKey(k)}

\* C1: once _calculate_turnover_rates has returned, its table is the table of
\* a single pass over the whole status table, whatever the batch size.
C1_TurnoverChunkingInvariance ==
    TurnoverReturned => turnover_rates = SinglePassTurnover

\* C2: in the final stability table, employment_rate of a key is (rows of the
\* key with a job) / (rows of the key) over the whole table and avg_balance is
\* the mean of availableBalance over all rows of the key.
C2_StabilityMeansWeighted ==
    StabilityReturned =>
        \A r \in employment_stability.rows :
            LET rows == RowsOfKey(<<r.participantId, r.month>>)
                members == SetToSeq(rows)
                employed == {i \in rows : ~IsNull(status_logs[i].jobId)}
            IN  /\ r.employment_rate = Some(Frac(Cardinality(employed), Cardinality(rows)))
                /\ r.avg_balance = MeanFracs([i \in 1..Len(members) |->
                                       status_logs[members[i]].availableBalance])

\* C3: for a key whose rows are split across batches, job_changes in the final
\* stability table is the distinct job count of the key in an unchunked run.
C3_DistinctJobsAcrossBatches ==
    StabilityReturned =>
        \A r \in employment_stability.rows :
            Cardinality(BatchesOfKey(<<r.participantId, r.month>>)) >= 2 =>
                \E u \in SinglePassStability.rows :
                    /\ u.participantId = r.participantId
                    /\ u.month = r.month
                    /\ u.job_changes = r.job_changes

\* the timestamped observations of a (participantId, jobId) pair whose job
\* has an employer
ObservationsOf(participant, job) ==
    {i \in 1..Len(status_logs) :
        /\ status_logs[i].participantId = participant
        /\ status_logs[i].jobId = job
        /\ ~IsNull(status_logs[i].timestamp)}

ObservedPairs ==
    {<<status_logs[i].participantId, status_logs[i].jobId>> :
        i \in {j \in 1..Len(status_logs) :
                  /\ ~IsNull(status_logs[j].jobId)
                  /\ ~IsNull(status_logs[j].timestamp)
                  /\ ~IsNull(JobsLookupGet(JobsLookup(jobs), Val(status_logs[j].jobId)))}}

\* C4: when the batch loop has ended, the pool holds exactly one tenure record
\* for every (participantId, jobId, employerId) with a timestamped observation,
\* and its start_month is the month of the earliest timestamp of the key in
\* the whole table.
C4_OneTenureRecordPerJob ==
    TurnoverLoopEnded =>
        \A k \in ObservedPairs :
            LET records == {e \in Concat(all_turnover_data) :
                               /\ e[2].participantId = k[1]
                               /\ e[2].jobId = k[2]
                               /\ e[2].employerId = JobsLookupGet(JobsLookup(jobs), Val(k[2]))}
                first == MinDatetime({Val(status_logs[i].timestamp) :
                                         i \in ObservationsOf(k[1], k[2])})
            IN  /\ Cardinality(records) = 1
                /\ \A e \in records : e[2].start_month = StrftimeYearMonth(first)

\* the ranges logged by one batch loop
PlanOf(analysis) == SelectSeq(batch_log, LAMBDA e : e.analysis = analysis)

\* a loop is over once the next step of main has been reached
LoopOver(analysis) ==
    IF analysis = "turnover" THEN TurnoverLoopEnded
    ELSE StabilityReturned \/ (pc = "stability" /\ batch_start >= TotalRecords)

PlanCovers(plan, complete) ==
    /\ \A i \in 1..Len(plan) :
          /\ plan[i].batch_start < plan[i].batch_end
          /\ plan[i].batch_end - plan[i].batch_start <= batch_size
          /\ i < Len(plan) => plan[i].batch_end - plan[i].batch_start = batch_size
          /\ i < Len(plan) => plan[i + 1].batch_start = plan[i].batch_end
          /\ plan[i].batch_end <= TotalRecords
    /\ plan # <<>> => plan[1].batch_start = 0
    /\ complete =>
          /\ TotalRecords = 0 => plan = <<>>
          /\ \A row \in 0..(TotalRecords - 1) :
                Cardinality({i \in 1..Len(plan) :
                    plan[i].batch_start <= row /\ row < plan[i].batch_end}) = 1

\* C5: the ranges visited by each batch loop are ascending, disjoint, non-empty,
\* at most batch_size long with only the last possibly shorter, cover
\* [0, total_records) exactly once when the loop is over, and there is none
\* when total_records = 0.
C5_ChunkPlanCoverage ==
    pc # "load" =>
        /\ PlanCovers(PlanOf("turnover"), LoopOver("turnover"))
        /\ PlanCovers(PlanOf("stability"), LoopOver("stability"))

C5_Witness ==
    /\ pc = "done"
    /\ Len(PlanOf("turnover")) >= 3
    /\ Len(PlanOf("stability")) >= 3
    /\ LET last == PlanOf("stability")[Len(PlanOf("stability"))]
       IN  last.batch_end - last.batch_start < batch_size

\* C6: every row of the returned turnover table has new_hires >= 1 and a
\* turnover_rate in [0, 1] that is (pooled records of the group with
\* tenure_days <= 30) / new_hires.
C6_TurnoverRateBounds ==
    TurnoverReturned =>
        \A r \in turnover_rates.rows :
            LET group == {e \in Concat(all_turnover_data) :
                             /\ e[2].start_month = r.month
                             /\ e[2].employerId = r.employerId}
                short == {e \in group : Val(e[2].tenure_days) <= 30}
            IN  /\ r.new_hires >= 1
                /\ r.new_hires = Cardinality(group)
                /\ FracLeq(<<0, 1>>, r.turnover_rate)
                /\ FracLeq(r.turnover_rate, <<1, 1>>)
                /\ r.turnover_rate[1] * r.new_hires = Cardinality(short) * r.turnover_rate[2]

C6_Witness ==
    /\ TurnoverReturned
    /\ \E r \in turnover_rates.rows : r.new_hires = 2 /\ r.turnover_rate = <<1, 2>>

\* C7: every tenure record in the pool has end_date >= start_date and
\* tenure_days >= 0, the whole days of end_date - start_date.
C7_TenureNonNegative ==
    \A e \in Concat(all_turnover_data) :
        /\ ~IsNull(e[2].start_date) /\ ~IsNull(e[2].end_date) /\ ~IsNull(e[2].tenure_days)
        /\ LET elapsed == EpochSeconds(Val(e[2].end_date)) - EpochSeconds(Val(e[2].start_date))
               days == Val(e[2].tenure_days)
           IN  /\ elapsed >= 0
               /\ days >= 0
               /\ days * SecondsPerDay <= elapsed
               /\ elapsed < (days + 1) * SecondsPerDay

C7_Witness ==
    \E e \in Concat(all_turnover_data) :
        /\ e[2].tenure_days = Some(31)
        /\ e[2].start_date # e[2].end_date

\* the raw values that stand for an absent identifier
IsSentinel(x) ==
    IsNull(x) \/ Val(x) \in {<<>>, <<"n", "u", "l", "l">>, <<"N", "o", "n", "e">>}

IsTypedId(x) == IsNull(x) \/ Val(x) \in Int

Loaded == pc \notin {"load", "failed"}

\* C8: after the load, a raw apartmentId / jobId that is "", "null", "None" or
\* null is null, any other raw value is what the Int64 cast makes of it, and
\* the column holds integers and nulls only.
C8_SentinelNormalization ==
    Loaded =>
        \A i \in 1..Len(log_files) :
            /\ IsSentinel(log_files[i].apartmentId) => IsNull(status_logs[i].apartmentId)
            /\ IsSentinel(log_files[i].jobId) => IsNull(status_logs[i].jobId)
            /\ ~IsSentinel(log_files[i].apartmentId) =>
                  status_logs[i].apartmentId = CastInt64(log_files[i].apartmentId)
            /\ ~IsSentinel(log_files[i].jobId) =>
                  status_logs[i].jobId = CastInt64(log_files[i].jobId)
            /\ IsTypedId(status_logs[i].apartmentId)
            /\ IsTypedId(status_logs[i].jobId)

C8_Witness ==
    /\ Loaded
    /\ Len(log_files) = 2
    /\ log_files[1].jobId = Some(<<"N", "o", "n", "e">>)
    /\ IsNull(status_logs[1].jobId)
    /\ log_files[2].apartmentId = Some(<<"1", "2">>)
    /\ status_logs[2].apartmentId = Some(12)

\* what the base raw row is after the load
BaseTypedRow ==
    [timestamp |-> Some([year |-> 2022, month |-> 3, day |-> 1,
                         hour |-> 0, minute |-> 0, second |-> 0]),
     participantId |-> Some(1), availableBalance |-> Some(<<3, 2>>),
     apartmentId |-> Some(7), jobId |-> Some(10)]

\* texts that are no value of the field's type
Unparseable(f) ==
    IF f = "timestamp" THEN RawTexts \ {TextB}
    ELSE IF f = "availableBalance"
    THEN RawTexts \ {<<"1", ".", "5">>, <<"1", "2">>, <<"-", "2">>}
    ELSE RawTexts \ {<<"1", "2">>, <<"-", "2">>}

\* C9: the load never fails on a field that does not parse: the table keeps
\* its number of rows, and a row whose only bad field is f is the typed row
\* with f null.
C9_CoercionFailureNonFatal ==
    pc # "load" =>
        /\ pc # "failed"
        /\ Len(status_logs) = Len(log_files)
        /\ \A i \in 1..Len(log_files) : \A f \in RawFields : \A t \in Unparseable(f) :
              log_files[i] = [BaseRawRow EXCEPT ![f] = Some(t)] =>
                  status_logs[i] = [BaseTypedRow EXCEPT ![f] = Null]

C9_Witness ==
    /\ Loaded
    /\ Len(status_logs) = 2
    /\ log_files[1] = [BaseRawRow EXCEPT !.timestamp = Some(TextBadDay)]
    /\ status_logs[1] = [BaseTypedRow EXCEPT !.timestamp = Null]
    /\ log_files[2] = [BaseRawRow EXCEPT !.availableBalance = Some(<<"a", "b", "c">>)]
    /\ status_logs[2] = [BaseTypedRow EXCEPT !.availableBalance = Null]

\* the positions of main before _calculate_turnover_rates returns or raises
BeforeTurnoverReturn ==
    {"load", "load_rest", "business", "financial", "employment", "turnover"}

NoEmployedRow == \A i \in 1..Len(status_logs) : IsNull(status_logs[i].jobId)

\* C10: when no row of the status table has a job, _calculate_turnover_rates
\* returns, without raising, a table with no rows.
C10_EmptyInputTurnover ==
    (pc \notin BeforeTurnoverReturn /\ NoEmployedRow) =>
        /\ TurnoverReturned
        /\ turnover_rates.columns # <<>>
        /\ turnover_rates.rows = {}

C10_Witness ==
    /\ TurnoverReturned
    /\ NoEmployedRow
    /\ Len(status_logs) = 3
    /\ Len(PlanOf("turnover")) >= 2
    /\ turnover_rates.rows = {}

\* C11: on every return path, the empty-pool path included, the turnover table
\* has exactly the columns month, employerId, new_hires, avg_tenure_days,
\* turnover_rate and the stability table exactly the columns participantId,
\* month, employment_rate, job_changes, avg_balance, stability_score.
C11_EmptyResultKeepsSchema ==
    /\ TurnoverReturned =>
          turnover_rates.columns =
              <<"month", "employerId", "new_hires", "avg_tenure_days", "turnover_rate">>
    /\ StabilityReturned =>
          employment_stability.columns =
              <<"participantId", "month", "employment_rate", "job_changes",
                "avg_balance", "stability_score">>

\* the job identifiers the dict has
LookupKeys == {jobs[i].jobId : i \in 1..Len(jobs)}

UnknownJob(row) == ~IsNull(row.jobId) /\ Val(row.jobId) \notin LookupKeys

\* the status table with no job where the job is not in the dict
WithoutUnknownJobs ==
    [i \in 1..Len(status_logs) |->
        IF UnknownJob(status_logs[i]) THEN [status_logs[i] EXCEPT !.jobId = Null]
        ELSE status_logs[i]]

\* C12: a status row whose jobId is not a key of the jobs dict raises nothing
\* and has no employer: no tenure record is made of it, and the turnover table
\* is the one of the status table with these rows without a job.
C12_UnknownJobIsAbsentEmployer ==
    /\ pc # "failed"
    /\ \A e \in Concat(all_turnover_data) :
          /\ Val(e[2].jobId) \in LookupKeys
          /\ e[2].employerId = Some(JobsLookup(jobs)[Val(e[2].jobId)])
    /\ TurnoverReturned =>
          turnover_rates =
              Table(TurnoverReturn(TenurePool(WithoutUnknownJobs, JobsLookup(jobs),
                        batch_size, BatchCount(TotalRecords, batch_size))))

C12_Witness ==
    /\ TurnoverReturned
    /\ Len(status_logs) = 3
    /\ UnknownJob(status_logs[1])
    /\ UnknownJob(status_logs[3])
    /\ status_logs[2].jobId = Some(10)
    /\ Cardinality(turnover_rates.rows) = 1
    /\ Len(PlanOf("turnover")) >= 2

\* C13: when an input file does not exist (no ParticipantStatusLogs*.csv, a
\* journal, or an attribute table), the run processes no batch of the batched
\* analyses and does not end with exit status 0.
C13_MissingSourceIsFatal ==
    missing # {} =>
        /\ batch_log = <<>>
        /\ ExitStatus # Some(0)

\* C14: in a run of main that ends with exit status 1, no table has been
\* written to the store: the store is as the run found it.
C14_NoPartialResultsCommit ==
    ExitStatus = Some(1) => store = store_at_start

\* the per-batch records of the pool for the key of a stability row
PooledRecords(r) ==
    SetToSeq({e \in Concat(all_stability_data) :
                 e[2].participantId = r.participantId /\ e[2].month = r.month})

\* C15: in every row of the table _analyze_employment_stability returns,
\* stability_score is the employment_rate of the row, the mean of the
\* employment_rate of the pooled records of its key.
C15_StabilityScoreIsEmploymentRate ==
    StabilityReturned =>
        \A r \in employment_stability.rows :
            /\ r.stability_score = r.employment_rate
            /\ r.employment_rate =
                  MeanFracs([i \in 1..Len(PooledRecords(r)) |->
                                PooledRecords(r)[i][2].employment_rate])

C15_Witness ==
    /\ StabilityReturned
    /\ \E r \in employment_stability.rows :
          /\ r.stability_score = Some(<<1, 2>>)
          /\ Len(PooledRecords(r)) = 2
    /\ \E r \in employment_stability.rows : r.stability_score = Some(<<1, 1>>)

\* the (participantId, month) keys of the status table
StatusKeys == {StabilityKey(status_logs[i]) : i \in 1..Len(status_logs)}

FullyEmployed(k) == \A i \in RowsOfKey(k) : ~IsNull(status_logs[i].jobId)

\* C16: a (participantId, month) all of whose status rows have a job is in the
\* stability table, once, with employment_rate = 1.0, whatever the batch size
\* and wherever the batches cut the rows of the key.
C16_FullyEmployedRateIsOne ==
    StabilityReturned =>
        \A k \in StatusKeys :
            FullyEmployed(k) =>
                /\ Cardinality({r \in employment_stability.rows :
                                   <<r.participantId, r.month>> = k}) = 1
                /\ \A r \in employment_stability.rows :
                      <<r.participantId, r.month>> = k => r.employment_rate = Some(<<1, 1>>)

C16_Witness ==
    /\ StabilityReturned
    /\ \E k \in StatusKeys :
          /\ FullyEmployed(k)
          /\ Cardinality(RowsOfKey(k)) = 3
          /\ Cardinality(BatchesOfKey(k)) = 2
          /\ \E r \in employment_stability.rows :
                <<r.participantId, r.month>> = k /\ r.employment_rate = Some(<<1, 1>>)

\* C17: the with_columns of load_participant_status_logs, applied to the table
\* it has made, completes and gives that table again: every field of every
\* row is unchanged.
C17_NormalizationIdempotent ==
    Loaded =>
        /\ ~WithColumns(NormalizedSchema, status_logs).raised
        /\ WithColumns(NormalizedSchema, status_logs).rows = status_logs

\* C18: when main has run again on the same input, the store holds the tables
\* it held after the run before: every save has replaced the table of its
\* name, none has added rows to it, and the tables of the batched analyses are
\* those of this run.
C18_IdempotentRerun ==
    /\ \A t \in StoreTables : Len(store[t]) <= 1
    /\ (ExitStatus # Null /\ run >= 2) => store = store_at_start
    /\ ExitStatus = Some(0) =>
          /\ store["employment.turnover_rates"] = <<turnover_rates>>
          /\ store["employment.stability"] = <<employment_stability>>

C18_Witness ==
    /\ ExitStatus = Some(0)
    /\ run = 2
    /\ store = store_at_start
    /\ store["employment.turnover_rates"] = <<turnover_rates>>
    /\ turnover_rates.rows # {}
    /\ store["employment.stability"] = <<employment_stability>>
    /\ Cardinality(employment_stability.rows) = 2

\* the number of iterations a batch loop has made
Iterations(analysis) == Len(PlanOf(analysis))

AllBatches == BatchCount(TotalRecords, batch_size)

\* C19: each batch loop takes the batches one at a time in ascending order,
\* its pool holding after k iterations the partial results of the first k
\* batches; no result table has a value while its loop runs, and the table
\* returned is computed of the pool of all batches.
C19_NoStreamingEmission ==
    /\ pc \in BeforeTurnoverReturn => turnover_rates = NotComputed
    /\ pc \in BeforeTurnoverReturn \cup {"stability"} => employment_stability = NotComputed
    /\ pc = "turnover" =>
          /\ batch_start = Iterations("turnover") * batch_size
          /\ all_turnover_data =
                TenurePool(status_logs, jobs_lookup, batch_size, Iterations("turnover"))
    /\ pc = "stability" =>
          /\ batch_start = Iterations("stability") * batch_size
          /\ all_stability_data =
                StabilityPool(status_logs, batch_size, Iterations("stability"))
    /\ TurnoverReturned =>
          /\ Iterations("turnover") = AllBatches
          /\ turnover_rates =
                Table(TurnoverReturn(
                    TenurePool(status_logs, jobs_lookup, batch_size, AllBatches)))
    /\ StabilityReturned =>
          /\ Iterations("stability") = AllBatches
          /\ employment_stability =
                Table(StabilityReturn(StabilityPool(status_logs, batch_size, AllBatches)))

C19_Witness ==
    /\ StabilityReturned
    /\ AllBatches = 3
    /\ Len(all_turnover_data) = 2
    /\ Len(all_stability_data) = 3
    /\ turnover_rates.rows # {}
    /\ Cardinality(employment_stability.rows) = 2

\* pool after is pool before, or pool before with one table appended
AtMostOneAppend(before, after) ==
    \/ after = before
    \/ Len(after) = Len(before) + 1 /\ SubSeq(after, 1, Len(before)) = before

\* one iteration of a batch loop
ChunkStep == pc \in {"turnover", "stability"} /\ batch_start' # batch_start /\ pc' = pc

\* C20: the jobs dict is built once, before the first batch, and never changed
\* afterwards; one iteration of a batch loop leaves the status table, the jobs
\* table, the dict, the result tables, the store and the tables already in
\* the pools as they are, and appends at most one table to the pool of its
\* loop.
C20_ChunkStepFrame ==
    [][/\ jobs_lookup' # jobs_lookup =>
              pc = "employment" /\ pc' = "turnover" /\ batch_log = <<>>
       /\ ChunkStep =>
              /\ UNCHANGED <<status_logs, jobs, jobs_lookup, batch_size, missing, store,
                             turnover_rates, employment_stability>>
              /\ pc = "turnover" =>
                    /\ AtMostOneAppend(all_turnover_data, all_turnover_data')
                    /\ UNCHANGED all_stability_data
              /\ pc = "stability" =>
                    /\ AtMostOneAppend(all_stability_data, all_stability_data')
                    /\ UNCHANGED all_turnover_data]_vars

C20_Witness ==
    /\ pc = "stability"
    /\ jobs_lookup = JobsLookup(jobs)
    /\ Iterations("turnover") = 3
    /\ Len(all_turnover_data) = 2
    /\ Iterations("stability") = 2
    /\ Len(all_stability_data) = 2

AllBalancesAbsent(k) == \A i \in RowsOfKey(k) : IsNull(status_logs[i].availableBalance)

\* C21: a (participantId, month) all of whose availableBalance observations
\* are absent has no row in the stability table.
C21_AllAbsentBalanceDropped ==
    StabilityReturned =>
        \A k \in StatusKeys :
            AllBalancesAbsent(k) =>
                \A r \in employment_stability.rows : <<r.participantId, r.month>> # k

\* the names that hold a batch's raw rows and intermediate tables; batch_tenure
\* and batch_stability are the partial results handed to the pool
ChunkScoped == {"batch_logs", "employed_records", "employment_periods"}

\* the batches whose raw or intermediate data a name still refers to
LiveBatches == {live[n] : n \in ChunkScoped} \ {0}

\* C22: at every point of the run, the raw rows and intermediate tables of at
\* most one batch are live besides the pools.
C22_OneChunkLive == Cardinality(LiveBatches) <= 1

\* the pooled tenure records counted in a row of the turnover table
CountedIn(r) ==
    {e \in Concat(all_turnover_data) :
        e[2].start_month = r.month /\ e[2].employerId = r.employerId}

\* C23: every row of the turnover table has an employerId and a month; a
\* tenure record is pooled only for a job that has an employer in the jobs
\* dict and a timestamped observation, and new_hires counts these records
\* alone.
C23_TurnoverRowsHaveEmployerAndMonth ==
    /\ \A e \in Concat(all_turnover_data) :
          /\ ~IsNull(e[2].employerId)
          /\ ~IsNull(e[2].start_month)
          /\ Val(e[2].jobId) \in LookupKeys
          /\ ObservationsOf(e[2].participantId, e[2].jobId) # {}
    /\ TurnoverReturned =>
          /\ \A r \in turnover_rates.rows :
                /\ ~IsNull(r.employerId)
                /\ ~IsNull(r.month)
                /\ r.new_hires = Cardinality(CountedIn(r))
          /\ Concat(all_turnover_data) = UNION {CountedIn(r) : r \in turnover_rates.rows}

C23_Witness ==
    /\ TurnoverReturned
    /\ Len(status_logs) = 3
    /\ IsNull(status_logs[1].timestamp)
    /\ status_logs[1].jobId = Some(10)
    /\ ObservationsOf(Some(1), Some(10)) = {}
    /\ status_logs[2].jobId = Some(11)
    /\ 11 \in LookupKeys
    /\ UnknownJob(status_logs[3])
    /\ ~IsNull(status_logs[3].timestamp)
    /\ \E r \in turnover_rates.rows : r.new_hires = 1 /\ r.employerId = Some(101)
    /\ Cardinality(turnover_rates.rows) = 1
    /\ Len(PlanOf("turnover")) >= 2

\* the orders a pool of n tables can be appended in
Orders(n) == {f \in [1..n -> 1..n] : \A i, j \in 1..n : i # j => f[i] # f[j]}

\* the pool with its tables in the order f
Reordered(pool, f) == [i \in 1..Len(pool) |-> pool[f[i]]]

\* C24: the turnover table and the stability table are those the combine step
\* returns for the tables of the pool appended in any other order.  Tables are
\* compared as sets of rows and means as exact fractions: the order of the rows
\* group_by yields and the rounding of a Float64 sum are outside the comparison.
C24_PoolOrderIndependence ==
    /\ TurnoverReturned =>
          \A f \in Orders(Len(all_turnover_data)) :
              Table(TurnoverReturn(Reordered(all_turnover_data, f))) = turnover_rates
    /\ StabilityReturned =>
          \A f \in Orders(Len(all_stability_data)) :
              Table(StabilityReturn(Reordered(all_stability_data, f))) = employment_stability

C24_Witness ==
    /\ StabilityReturned
    /\ Len(all_turnover_data) = 2
    /\ all_turnover_data[1] # all_turnover_data[2]
    /\ \E r \in turnover_rates.rows : r.new_hires = 2 /\ r.avg_tenure_days = Some(<<31, 2>>)
    /\ Len(all_stability_data) = 2
    /\ all_stability_data[1] # all_stability_data[2]
    /\ \E r \in employment_stability.rows : r.avg_balance = Some(<<3, 2>>)

====
